---- MODULE Spec2Model ----
(***************************************************************************)
(* A model of the plugin-engine dependency graph (src/src/graph.model.ts): *)
(* the store `_nodes`, the operations addNode / removeNode / replaceNode,  *)
(* the getters nodeList / nodes, the depth-first resolver DFS and the      *)
(* events the graph emits.                                                 *)
(*                                                                         *)
(* A node is a record [id, deps]; `deps` is the declared list, <<>> when   *)
(* the field is absent.  Nodes are readonly JavaScript objects and the     *)
(* code compares them by reference (Set.has, Array.includes).  The callers *)
(* of the model draw their nodes from the pool Node, which holds one       *)
(* object per (id, deps), so equality of records is identity of objects:   *)
(* passing a record the store holds is passing the stored object again.    *)
(*                                                                         *)
(* The store is a JavaScript Map: it is kept as the sequence of its values *)
(* in insertion order, at most one per id.                                 *)
(***************************************************************************)
EXTENDS Integers, Sequences, FiniteSets, TLC

\* ---------------------------------------------------------------- bounds
MaxDeps == 1
MaxBatch == 2
MaxIds == 2

NodeIds == {"bob", "boris", "berte"}
DepLists == UNION {[1..n -> NodeIds] : n \in 0..MaxDeps}
Node == [id : NodeIds, deps : DepLists]
Batches == UNION {[1..n -> Node] : n \in 0..MaxBatch}
IdLists == UNION {[1..n -> NodeIds] : n \in 1..MaxIds}

VARIABLES
    _nodes,     \* the store: the Map's values in insertion order
    pc,         \* the caller: "idle" before a call, "returned" after it
    op,         \* the operation of the last call
    args,       \* its arguments (a list of nodes, or a list of ids)
    pre,        \* the store when the call began
    error,      \* what the call threw, NoError when it returned
    events,     \* what the call emitted, each with the store at that moment
    result      \* the object the call returned, and what the caller made of it

vars == <<_nodes, pc, op, args, pre, error, events, result>>

\* ---------------------------------------------------------------- helpers
Range(s) == {s[i] : i \in DOMAIN s}

RECURSIVE SeqFilter(_, _)
SeqFilter(s, keep) ==
    IF s = <<>> THEN <<>>
    ELSE IF Head(s) \in keep
         THEN <<Head(s)>> \o SeqFilter(Tail(s), keep)
         ELSE SeqFilter(Tail(s), keep)

Keys(store) == {store[i].id : i \in DOMAIN store}

\* Map.get on a sequence of nodes: the last node listed under the id
\* (new Map(entries) lets a later entry overwrite an earlier one).
MapGet(s, id) ==
    LET last == CHOOSE i \in DOMAIN s :
                    /\ s[i].id = id
                    /\ \A j \in DOMAIN s : s[j].id = id => j <= i
    IN s[last]

\* Map.set: overwrite in place under an id the map holds, else append.
MapSet(store, node) ==
    IF node.id \in Keys(store)
    THEN [i \in DOMAIN store |-> IF store[i].id = node.id THEN node ELSE store[i]]
    ELSE Append(store, node)

\* Map.delete: drop the entry under the id, if any.
MapDelete(store, id) ==
    SeqFilter(store, {n \in Range(store) : n.id # id})

\* ---------------------------------------------------------------- errors
\* An error carries what its constructor was given (id, deps) and, for
\* missing-dependency, the dependencies its message lists as missing.
NoError == [kind |-> "none", id |-> "", deps |-> <<>>, missingDeps |-> <<>>]
CyclicalDependencyError(id) ==
    [kind |-> "cyclical", id |-> id, deps |-> <<>>, missingDeps |-> <<>>]
\* missingDeps = dependencies.filter(dep => graph.nodeList.has(dep))
MissingDependencyError(id, deps, graph) ==
    [kind |-> "missing", id |-> id, deps |-> deps,
     missingDeps |-> SeqFilter(deps, Keys(graph))]
NotImplementedError ==
    [kind |-> "not-implemented", id |-> "", deps |-> <<>>, missingDeps |-> <<>>]

\* ---------------------------------------------------------------- DFS
\* The traversal state: the two mark sets, the result built by unshift,
\* and the error thrown (which ends the traversal).
DFSInit == [temp |-> {}, perm |-> {}, sorted |-> <<>>, err |-> NoError]

\* `all` is the array `unmarked` as first built (the stored nodes, then the
\* candidates), which `map` is made from; `graph` is the store the error
\* constructor reads.
RECURSIVE visit(_, _, _, _)
RECURSIVE visitDeps(_, _, _, _, _)
\* visitDeps with an absent dependency skipped instead of thrown.
visitDepsSkipsAbsent(node, i, st, all, graph) ==
    IF st.err # NoError \/ i > Len(node.deps) THEN st
    ELSE IF node.deps[i] \in Keys(all)
         THEN visitDeps(node, i + 1, visit(MapGet(all, node.deps[i]), st, all, graph), all, graph)
         ELSE visitDeps(node, i + 1, st, all, graph)

visit(node, st, all, graph) ==
    IF st.err # NoError THEN st
    ELSE IF node \in st.perm THEN st
    ELSE IF node \in st.temp
         THEN [st EXCEPT !.err = CyclicalDependencyError(node.id)]
    ELSE LET st1 == [st EXCEPT !.temp = @ \cup {node}]
             st2 == visitDeps(node, 1, st1, all, graph)
         IN IF st2.err # NoError THEN st2
            ELSE [st2 EXCEPT !.temp = @ \ {node},
                             !.perm = @ \cup {node},
                             !.sorted = <<node>> \o @]

visitDeps(node, i, st, all, graph) ==
    IF st.err # NoError \/ i > Len(node.deps) THEN st
    ELSE IF node.deps[i] \in Keys(all)
         THEN visitDeps(node, i + 1, visit(MapGet(all, node.deps[i]), st, all, graph), all, graph)
         ELSE [st EXCEPT !.err = MissingDependencyError(node.id, node.deps, graph)]

\* The loop of DFS: pop the last unmarked node and visit it, until none is left.
RECURSIVE popAll(_, _, _, _)
popAll(unmarked, st, all, graph) ==
    IF unmarked = <<>> \/ st.err # NoError THEN st
    ELSE popAll(SubSeq(unmarked, 1, Len(unmarked) - 1),
                visit(unmarked[Len(unmarked)], st, all, graph), all, graph)

\* DFS with the result filtered by id instead of by object: a candidate
\* that reuses a stored id is dropped from the result.
DFSFiltersById(existing, newNodes) ==
    LET unmarked == existing \o newNodes
        st == popAll(unmarked, DFSInit, unmarked, existing)
    IN [err |-> st.err,
        sorted |-> SeqFilter(st.sorted,
                             {n \in Range(st.sorted) : n.id \notin Keys(existing)})]

\* DFS(existing, newNodes): [err, sorted], sorted being the visited nodes
\* that are not objects of `existing`.
DFS(existing, newNodes) ==
    LET unmarked == existing \o newNodes
        st == popAll(unmarked, DFSInit, unmarked, existing)
    IN [err |-> st.err,
        sorted |-> SeqFilter(st.sorted, Range(st.sorted) \ Range(existing))]

sortNodes(store, nodes) == DFS(store, nodes)

\* ---------------------------------------------------------------- events
NodeAdd(node, store) ==
    [type |-> "node:add", node |-> node, removalType |-> "none", snap |-> store]
NodeRemove(node, removalType, store) ==
    [type |-> "node:remove", node |-> node, removalType |-> removalType, snap |-> store]

\* A commit loop that emits the event before it stores the node.
RECURSIVE commitAddEmitsFirst(_, _, _)
commitAddEmitsFirst(sorted, store, evs) ==
    IF sorted = <<>> THEN [store |-> store, events |-> evs]
    ELSE commitAddEmitsFirst(Tail(sorted), MapSet(store, Head(sorted)),
                             Append(evs, NodeAdd(Head(sorted), store)))

\* sortedNodes.forEach(node => { set; emit }) : [store, events]
RECURSIVE commitAdd(_, _, _)
commitAdd(sorted, store, evs) ==
    IF sorted = <<>> THEN [store |-> store, events |-> evs]
    ELSE LET s2 == MapSet(store, Head(sorted))
         IN commitAdd(Tail(sorted), s2, Append(evs, NodeAdd(Head(sorted), s2)))

\* nodes.forEach(node => { delete; emit }) : [store, events]
RECURSIVE commitRemove(_, _, _, _)
commitRemove(nodes, removalType, store, evs) ==
    IF nodes = <<>> THEN [store |-> store, events |-> evs]
    ELSE LET s2 == MapDelete(store, Head(nodes).id)
         IN commitRemove(Tail(nodes), removalType, s2,
                         Append(evs, NodeRemove(Head(nodes), removalType, s2)))

\* ---------------------------------------------------------------- operations
\* Each operation is a function of the store and its arguments to the
\* outcome of the call: the store it leaves, the events it emitted, and
\* the error it threw (NoError when it returned `this`).
\* What a call hands back: a reference. `ref` names the object ("graph" for
\* `this`, "new Map" for a map made by the call, "_nodes" for the store's
\* own map, "none" when the call threw); `entries` are the entries of a map.
Nothing == [ref |-> "none", entries |-> <<>>]
This == [ref |-> "graph", entries |-> <<>>]

\* the mutators end in `return this` unless they threw
Outcome(store, evs, err) ==
    [store |-> store, events |-> evs, error |-> err,
     returned |-> IF err = NoError THEN This ELSE Nothing]

\* a length test that lets the empty array through
hasZeroOrMore(candidate) == Len(candidate) >= 0

hasOneOrMore(candidate) == Len(candidate) > 0

\* addNode that stores what the traversal had sorted when it threw.
addNodeCommitsOnError(store, nodes) ==
    IF hasOneOrMore(nodes)
    THEN LET r == sortNodes(store, nodes)
             c == commitAdd(r.sorted, store, <<>>)
         IN Outcome(c.store, c.events, r.err)
    ELSE Outcome(store, <<>>, NoError)

addNode(store, nodes) ==
    IF hasOneOrMore(nodes)
    THEN LET r == sortNodes(store, nodes)
             c == commitAdd(r.sorted, store, <<>>)
         IN IF r.err # NoError
            THEN Outcome(store, <<>>, r.err)
            ELSE Outcome(c.store, c.events, NoError)
    ELSE Outcome(store, <<>>, NoError)

\* Dependents taken to be every stored node that declares any dependency.
dependentsOfAny(dependencies, store) ==
    IF dependencies = <<>> THEN <<>>
    ELSE SeqFilter(store, {n \in Range(store) : n.deps # <<>>})

\* nodesToBeRemoved.flatMap(dependency => values.filter(deps includes dependency.id))
RECURSIVE dependentsOf(_, _)
dependentsOf(dependencies, store) ==
    IF dependencies = <<>> THEN <<>>
    ELSE SeqFilter(store, {n \in Range(store) : Head(dependencies).id \in Range(n.deps)})
         \o dependentsOf(Tail(dependencies), store)

\* removeNode that walks the requested nodes before their dependents.
removeNodeDirectFirst(store, nodeIds) ==
    LET nodesToBeRemoved ==
            SeqFilter(store, {n \in Range(store) : n.id \in Range(nodeIds)})
        dependentNodes == dependentsOf(nodesToBeRemoved, store)
        direct == commitRemove(nodesToBeRemoved, "direct", store, <<>>)
        pruned == commitRemove(dependentNodes, "prune", direct.store, direct.events)
    IN Outcome(pruned.store, pruned.events, NoError)

\* removeNode that prunes the dependents of every requested id, stored or not.
removeNodePrunesForAbsent(store, nodeIds) ==
    LET nodesToBeRemoved ==
            SeqFilter(store, {n \in Range(store) : n.id \in Range(nodeIds)})
        dependentNodes ==
            SeqFilter(store, {n \in Range(store) :
                                Range(n.deps) \cap Range(nodeIds) # {}})
        pruned == commitRemove(dependentNodes, "prune", store, <<>>)
        direct == commitRemove(nodesToBeRemoved, "direct", pruned.store, pruned.events)
    IN Outcome(direct.store, direct.events, NoError)

\* removeNode that removes a requested node only once nothing depends on it.
removeNodeLeavesFirst(store, nodeIds) ==
    LET nodesToBeRemoved ==
            SeqFilter(store, {n \in Range(store) : n.id \in Range(nodeIds)})
        dependentNodes == dependentsOf(nodesToBeRemoved, store)
        pruned == commitRemove(dependentNodes, "prune", store, <<>>)
        direct == commitRemove(nodesToBeRemoved, "direct", pruned.store, pruned.events)
    IN IF dependentNodes = <<>>
       THEN Outcome(direct.store, direct.events, NoError)
       ELSE Outcome(pruned.store, pruned.events, NoError)

removeNode(store, nodeIds) ==
    LET nodesToBeRemoved ==
            SeqFilter(store, {n \in Range(store) : n.id \in Range(nodeIds)})
        dependentNodes == dependentsOf(nodesToBeRemoved, store)
        pruned == commitRemove(dependentNodes, "prune", store, <<>>)
        direct == commitRemove(nodesToBeRemoved, "direct", pruned.store, pruned.events)
    IN Outcome(direct.store, direct.events, NoError)

\* replaceNode that stores the replacements before it throws.
replaceNodeCommitsThenThrows(store, nodes) ==
    LET c == commitAdd(nodes, store, <<>>)
    IN Outcome(c.store, c.events, NotImplementedError)

replaceNode(store, nodes) == Outcome(store, <<>>, NotImplementedError)

\* nodeList that hands out the store's own map.
nodeListAliasesStore(store) ==
    [store |-> store, events |-> <<>>, error |-> NoError,
     returned |-> [ref |-> "_nodes", entries |-> store]]

\* get nodeList: new Map(this._nodes)
nodeList(store) ==
    [store |-> store, events |-> <<>>, error |-> NoError,
     returned |-> [ref |-> "new Map", entries |-> store]]

\* get nodes (named get_nodes here: `nodes` is the parameter of the mutators)
get_nodes(store) == Outcome(store, <<>>, NotImplementedError)

\* ---------------------------------------------------------------- state
Init ==
    /\ _nodes = <<>>
    /\ pc = "idle"
    /\ op = "none"
    /\ args = <<>>
    /\ pre = <<>>
    /\ error = NoError
    /\ events = <<>>
    /\ result = Nothing

\* A call: the whole handler runs, and the caller is left with its outcome.
Call(name, arguments, out) ==
    /\ pc = "idle"
    /\ pc' = "returned"
    /\ op' = name
    /\ args' = arguments
    /\ pre' = _nodes
    /\ _nodes' = out.store
    /\ events' = out.events
    /\ error' = out.error
    /\ result' = out.returned

CallAddNode(nodes) == Call("addNode", nodes, addNode(_nodes, nodes))

CallRemoveNode(nodeIds) == Call("removeNode", nodeIds, removeNode(_nodes, nodeIds))

CallReplaceNode(nodes) == Call("replaceNode", nodes, replaceNode(_nodes, nodes))

ReadNodeList == Call("nodeList", <<>>, nodeList(_nodes))

ReadNodes == Call("nodes", <<>>, get_nodes(_nodes))

\* The caller edits the map a nodeList read gave it (map.set, map.delete).
\* The edit lands on the object `result` refers to: on the store too when
\* that object is the store's own map.
Edit(name, arguments, edited) ==
    /\ pc = "returned"
    /\ op = "nodeList"
    /\ error = NoError
    /\ op' = name
    /\ args' = arguments
    /\ pre' = _nodes
    /\ result' = [result EXCEPT !.entries = edited]
    /\ _nodes' = IF result.ref = "_nodes" THEN edited ELSE _nodes
    /\ UNCHANGED <<pc, error, events>>

EditSet(node) == Edit("nodeList.set", <<node>>, MapSet(result.entries, node))

EditDelete(id) == Edit("nodeList.delete", <<id>>, MapDelete(result.entries, id))

\* The caller goes on to its next statement: the outcome of the call that
\* returned or threw is behind it.
Continue ==
    /\ pc = "returned"
    /\ pc' = "idle"
    /\ op' = "none"
    /\ args' = <<>>
    /\ pre' = <<>>
    /\ error' = NoError
    /\ events' = <<>>
    /\ result' = Nothing
    /\ UNCHANGED _nodes

Next ==
    \/ \E nodes \in Batches : CallAddNode(nodes)
    \/ \E nodeIds \in IdLists : CallRemoveNode(nodeIds)
    \/ \E nodes \in Batches \ {<<>>} : CallReplaceNode(nodes)
    \/ ReadNodeList
    \/ ReadNodes
    \/ \E node \in Node : EditSet(node)
    \/ \E id \in NodeIds : EditDelete(id)
    \/ Continue

Spec == Init /\ [][Next]_vars

\* ---------------------------------------------------------------- vocabulary of the claims
Returned(name) == pc = "returned" /\ op = name
Succeeded(name) == Returned(name) /\ error = NoError
Threw(name) == Returned(name) /\ error # NoError

Ids(nodes) == {nodes[i].id : i \in DOMAIN nodes}

\* The ids a node stored under `id` declares (none when `id` is not a key).
DepsOf(store, id) ==
    IF id \in Keys(store) THEN Range(MapGet(store, id).deps) ELSE {}

RECURSIVE Reach(_, _)
Reach(store, ids) ==
    LET next == ids \cup UNION {DepsOf(store, i) : i \in ids}
    IN IF next = ids THEN ids ELSE Reach(store, next)

\* The dependency closure of `id`: the ids one or more deps hops away.
Closure(store, id) == Reach(store, DepsOf(store, id))

Dangling(store) ==
    \E id \in Keys(store) : \E d \in DepsOf(store, id) : d \notin Keys(store)
Cyclic(store) == \E id \in Keys(store) : id \in Closure(store, id)

\* The nodes of a batch have pairwise distinct ids.
DistinctIds(nodes) ==
    \A i, j \in DOMAIN nodes : nodes[i].id = nodes[j].id => i = j

\* The positions of the events of `type` that carry `node`.
EventsOf(type, node) ==
    {i \in DOMAIN events : events[i].type = type /\ events[i].node = node}

\* The store overlaid with a batch is read off pre \o args: MapGet takes the
\* last node listed under an id, so a candidate stands in for a stored node
\* of the same id.
\* Some node of the store or of the batch declares a dependency that is
\* neither a key of the store nor an id of the batch.
DeclaresAbsent(node, all) == \E d \in Range(node.deps) : d \notin Keys(all)

\* ---------------------------------------------------------------- claims

\* C1: after every addNode / removeNode call, every id listed in the deps
\* of a stored node is a key of the store (no dangling dependency).
C1_NoDanglingDeps == ~Dangling(_nodes)

\* C2: after removeNode(X) returns for an X that was in the store, the
\* store holds no node whose dependency closure over the store before
\* the call included X.
C2_CascadeComplete ==
    Returned("removeNode") =>
        \A x \in Range(args) \cap Keys(pre) :
            \A id \in Keys(_nodes) : x \notin Closure(pre, id)

\* C3: in a successful addNode batch, for every candidate C that declares a
\* dependency D which is a candidate of the same batch, every node:add
\* event of C comes after a node:add event of D, and D is in the store
\* when C's event is emitted.
C3_DependencyFirst ==
    Succeeded("addNode") =>
        \A c, d \in Range(args) :
            (d.id \in Range(c.deps) /\ c # d) =>
                \A i \in EventsOf("node:add", c) :
                    /\ \E j \in EventsOf("node:add", d) : j < i
                    /\ d \in Range(events[i].snap)

\* C4: if addNode throws, it threw missing-dependency or
\* cyclical-dependency, the store is identical to the store before the call
\* and the call emitted no event.
C4_AddFailureAtomic ==
    Threw("addNode") =>
        /\ error.kind \in {"missing", "cyclical"}
        /\ _nodes = pre
        /\ events = <<>>

C4_Witness ==
    /\ Threw("addNode")
    /\ pre # <<>>
    /\ Len(args) > 1
    /\ \E i \in DOMAIN args : ~DeclaresAbsent(args[i], pre \o args)

\* C5: in every reachable state the dependency relation restricted to the
\* stored nodes is acyclic.
C5_Acyclic == ~Cyclic(_nodes)

\* C6: when a candidate of an addNode batch declares a dependency that is
\* neither a key of the store nor an id of the batch, and the store
\* overlaid with the batch has no cycle, addNode throws missing-dependency
\* carrying the id and the declared deps of a node (of the store or the
\* batch) that declares an absent dependency, and commits nothing.
C6_MissingDependency ==
    (/\ Returned("addNode")
     /\ \E c \in Range(args) : DeclaresAbsent(c, pre \o args)
     /\ ~Cyclic(pre \o args))
    => /\ error.kind = "missing"
       /\ \E n \in Range(pre \o args) :
            /\ n.id = error.id
            /\ n.deps = error.deps
            /\ DeclaresAbsent(n, pre \o args)
       /\ _nodes = pre
       /\ events = <<>>

C6_Witness ==
    /\ Returned("addNode")
    /\ pre # <<>>
    /\ Len(args) > 1
    /\ \E c \in Range(args) : DeclaresAbsent(c, pre \o args)
    /\ \E c \in Range(args) : ~DeclaresAbsent(c, pre \o args) /\ c.deps # <<>>
    /\ ~Cyclic(pre \o args)
    /\ error.kind = "missing"

\* C7: when the store overlaid with the batch contains a dependency cycle
\* and no node of the store or the batch declares an absent dependency,
\* addNode throws cyclical-dependency carrying the id of a node that lies
\* on a cycle of the overlaid store.
C7_CyclicalDependency ==
    (/\ Returned("addNode")
     /\ Cyclic(pre \o args)
     /\ \A n \in Range(pre \o args) : ~DeclaresAbsent(n, pre \o args))
    => /\ error.kind = "cyclical"
       /\ error.id \in Keys(pre \o args)
       /\ error.id \in Closure(pre \o args, error.id)

\* C7 from a store that holds no cycle (the only cyclic stores are those the
\* counterexample of C5 leads to).
C7_FromAcyclicStore == ~Cyclic(pre) => C7_CyclicalDependency

\* C8 as stated: after a successful addNode the store maps the id of every
\* candidate to that candidate, every entry stored under an id the batch
\* does not use is still there, and the key set is the old keys united with
\* the batch ids.
StoredBatch(nodes) ==
    /\ \A c \in Range(nodes) : c.id \in Keys(_nodes) /\ MapGet(_nodes, c.id) = c
    /\ \A n \in Range(pre) : n.id \notin Ids(nodes) => n \in Range(_nodes)
    /\ Keys(_nodes) = Keys(pre) \cup Ids(nodes)
    /\ Len(_nodes) = Cardinality(Keys(_nodes))

C8_Original == Succeeded("addNode") => StoredBatch(args)

\* C8 (amended): the same, for a batch whose candidates have pairwise
\* distinct ids, whatever the order in which they are listed.
C8_AddStoresBatch ==
    (Succeeded("addNode") /\ DistinctIds(args)) => StoredBatch(args)

\* a batch listed dependent first, one candidate replacing a stored node
C8_Witness ==
    /\ Succeeded("addNode")
    /\ DistinctIds(args)
    /\ Len(args) > 1
    /\ args[2].id \in Range(args[1].deps)
    /\ \E c \in Range(args) : c.id \in Keys(pre) /\ c \notin Range(pre)
    /\ \E n \in Range(pre) : n.id \notin Ids(args)

\* The replacements a replaceNode call is to accept: ids all in the store,
\* one replacement per id, and an end state (the store with the replacements
\* in place of their originals) with no dangling dependency and no cycle.
ValidReplacement(store, nodes) ==
    /\ nodes # <<>>
    /\ Ids(nodes) \subseteq Keys(store)
    /\ DistinctIds(nodes)
    /\ ~Dangling(store \o nodes)
    /\ ~Cyclic(store \o nodes)

\* C9: replaceNode called with valid replacements returns normally, and
\* afterwards the store maps each replaced id to its replacement, with the
\* key set and every other entry unchanged.
C9_ReplaceStores ==
    (Returned("replaceNode") /\ ValidReplacement(pre, args)) =>
        /\ error = NoError
        /\ \A c \in Range(args) : MapGet(_nodes, c.id) = c
        /\ Keys(_nodes) = Keys(pre)
        /\ \A n \in Range(pre) : n.id \notin Ids(args) => n \in Range(_nodes)

\* C10: a replaceNode call with valid replacements emits three waves over
\* the whole batch, each in input order: node:remove (direct) for every old
\* node, then node:add for every new node, then node:replace for every pair.
C10_ReplaceWaves ==
    (Returned("replaceNode") /\ ValidReplacement(pre, args)) =>
        LET n == Len(args) IN
        /\ Len(events) = 3 * n
        /\ \A i \in 1..n :
            /\ events[i].type = "node:remove"
            /\ events[i].removalType = "direct"
            /\ events[i].node = MapGet(pre, args[i].id)
            /\ events[n + i].type = "node:add"
            /\ events[n + i].node = args[i]
            /\ events[2 * n + i].type = "node:replace"
            /\ events[2 * n + i].node = args[i]

\* The end state a replaceNode call is to validate: the store with the
\* replacements standing in for their originals.
EndState(store, nodes) == store \o nodes

\* C11: replaceNode fails only by validation: it raises missing-dependency
\* when a replacement declares a dependency absent from the end state,
\* cyclical-dependency when the end state contains a cycle, and no other
\* kind of error.
C11_ReplaceFailsByValidation ==
    Returned("replaceNode") =>
        LET end == EndState(pre, args)
            absent == \E c \in Range(args) : DeclaresAbsent(c, end)
        IN /\ error.kind \in {"none", "missing", "cyclical"}
           /\ (absent /\ ~Cyclic(end)) => error.kind = "missing"
           /\ (Cyclic(end) /\ ~absent) => error.kind = "cyclical"
           /\ (absent /\ Cyclic(end)) => error.kind \in {"missing", "cyclical"}

\* C12: when replaceNode throws, the store is the store of before the call
\* and the call has emitted no event.
C12_ReplaceFailureAtomic ==
    Threw("replaceNode") => (_nodes = pre /\ events = <<>>)

\* a throwing replaceNode on a store that holds the node to replace, the
\* replacement being another object than the original
C12_Witness ==
    /\ Threw("replaceNode")
    /\ \E c \in Range(args) : c.id \in Keys(pre) /\ c \notin Range(pre)
    /\ _nodes # <<>>

\* C13: in a removeNode call, the prune events of the nodes removed because
\* of a requested stored id come before the direct event of that id; prune
\* events carry stored dependents of requested stored ids, direct events
\* carry the requested stored nodes, one per requested stored id.
C13_PruneBeforeDirect ==
    Returned("removeNode") =>
        LET requested == Range(args) \cap Keys(pre) IN
        /\ \A i, j \in DOMAIN events :
              ( /\ events[i].removalType = "prune"
                /\ events[j].removalType = "direct"
                /\ events[j].node.id \in Range(events[i].node.deps) ) => i < j
        /\ \A i \in DOMAIN events :
              /\ events[i].type = "node:remove"
              /\ events[i].node \in Range(pre)
              /\ events[i].removalType = "prune" =>
                    Range(events[i].node.deps) \cap requested # {}
              /\ events[i].removalType = "direct" =>
                    events[i].node.id \in requested
        /\ \A id \in requested :
              \E i \in DOMAIN events :
                  /\ events[i].removalType = "direct"
                  /\ events[i].node = MapGet(pre, id)

\* a removal that pruned a dependent and then removed the requested node
C13_Witness ==
    /\ Returned("removeNode")
    /\ \E i, j \in DOMAIN events :
          /\ i < j
          /\ events[i].removalType = "prune"
          /\ events[j].removalType = "direct"
          /\ events[j].node.id \in Range(events[i].node.deps)

\* C14: removeNode deletes only nodes whose id is requested or whose
\* dependency closure contains a requested id that was in the store; every
\* other stored entry stays, unchanged and in place.
C14_RemoveFrame ==
    Returned("removeNode") =>
        LET requested == Range(args) \cap Keys(pre) IN
        /\ \A n \in Range(pre) :
              \/ n \in Range(_nodes)
              \/ n.id \in Range(args)
              \/ Closure(pre, n.id) \cap requested # {}
        /\ _nodes = SeqFilter(pre, Range(_nodes))

\* a removal that took a requested node and a dependent of it out of the
\* store and left a node that declares dependencies in it
C14_Witness ==
    /\ Returned("removeNode")
    /\ \E n \in Range(pre) : n \notin Range(_nodes) /\ n.id \notin Range(args)
    /\ \E n \in Range(_nodes) : n.deps # <<>>

\* C15: removeNode called with ids none of which is a key of the store
\* leaves the store unchanged, raises no error and emits no event.
C15_RemoveAbsent ==
    (Returned("removeNode") /\ Range(args) \cap Keys(pre) = {}) =>
        (_nodes = pre /\ error = NoError /\ events = <<>>)

\* absent ids requested from a store in which a node declares one of them
C15_Witness ==
    /\ Returned("removeNode")
    /\ Range(args) \cap Keys(pre) = {}
    /\ \E n \in Range(pre) : Range(n.deps) \cap Range(args) # {}

\* C16: removeNode is idempotent: the same call made again right after a
\* removeNode call leaves the store as the first call left it and emits no
\* event.
C16_RemoveIdempotent ==
    Returned("removeNode") =>
        LET second == removeNode(_nodes, args)
        IN /\ second.store = _nodes
           /\ second.events = <<>>
           /\ second.error = NoError

\* a first call that pruned and removed, and left nodes in the store
C16_Witness ==
    /\ Returned("removeNode")
    /\ \E i \in DOMAIN events : events[i].removalType = "prune"
    /\ \E i \in DOMAIN events : events[i].removalType = "direct"
    /\ _nodes # <<>>

\* C17: the ids a missing-dependency error reports as missing are exactly
\* the declared deps of the named node that are absent from both the store
\* and the batch; a dependency present in the store is never reported.
C17_ReportedMissing ==
    (Returned("addNode") /\ error.kind = "missing") =>
        /\ Range(error.missingDeps) =
              {d \in Range(error.deps) : d \notin Keys(pre) /\ d \notin Ids(args)}
        /\ \A d \in Range(error.missingDeps) : d \notin Keys(pre)

\* C18: nodeList returns an independent copy of the store: at read time it
\* holds exactly the stored entries, and a set or delete on the returned
\* map changes neither the store nor what a later nodeList read returns.
C18_NodeListIsCopy ==
    /\ Returned("nodeList") => (error = NoError /\ result.entries = _nodes)
    /\ (Returned("nodeList.set") \/ Returned("nodeList.delete")) =>
          /\ _nodes = pre
          /\ nodeList(_nodes).returned.entries = pre

\* the returned map was edited and now differs from a store that holds nodes
C18_Witness ==
    /\ Returned("nodeList.set") \/ Returned("nodeList.delete")
    /\ result.entries # _nodes
    /\ _nodes # <<>>

\* The tree view the store projects to: its roots, and the children of an id.
Roots(store) == {n \in Range(store) : n.deps = <<>>}
Children(store, id) == {n \in Range(store) : id \in Range(n.deps)}

\* C19: reading the tree view succeeds in every reachable state; its roots
\* are exactly the stored nodes that declare no dependencies, and the
\* children of each tree node are exactly the stored nodes that declare it.
C19_TreeViewConsistent ==
    Returned("nodes") =>
        /\ error = NoError
        /\ result.ref = "tree"
        /\ {t.id : t \in Range(result.entries)} = {n.id : n \in Roots(_nodes)}
        /\ \A t \in Range(result.entries) : t.children = Children(_nodes, t.id)

\* C20: addNode called with an empty batch is a no-op: the store is
\* unchanged, no event is emitted, no error is raised (also when a stored
\* node has a dangling dependency), and the graph itself is returned.
C20_EmptyBatchNoOp ==
    (Returned("addNode") /\ args = <<>>) =>
        (_nodes = pre /\ events = <<>> /\ error = NoError /\ result = This)

\* an empty batch added to a store that holds a dangling dependency
C20_Witness ==
    /\ Returned("addNode")
    /\ args = <<>>
    /\ Dangling(pre)

\* C21: during a successful addNode, at the moment each node:add event is
\* delivered, every dependency of every node then in the store is itself in
\* the store.
C21_NoDanglingMidCommit ==
    Succeeded("addNode") =>
        \A i \in DOMAIN events :
            events[i].type = "node:add" => ~Dangling(events[i].snap)

\* The node a missing-dependency error names.
NamedNode(err) == [id |-> err.id, deps |-> err.deps]

\* No candidate of the batch declares a dependency that is neither a key of
\* the store nor an id of the batch, and the store overlaid with the batch
\* has no cycle.
ValidBatch(store, nodes) ==
    /\ \A c \in Range(nodes) : ~DeclaresAbsent(c, store \o nodes)
    /\ ~Cyclic(store \o nodes)

\* C22: in every reachable state an addNode batch whose candidates' deps
\* are all keys of the store or ids of the batch, and which creates no
\* cycle, succeeds; and whenever addNode raises missing-dependency the node
\* it names is a candidate of the batch.
C22_ValidBatchSucceeds ==
    Returned("addNode") =>
        /\ ValidBatch(pre, args) => error = NoError
        /\ error.kind = "missing" => NamedNode(error) \in Range(args)

\* C23: when removeNode prunes a node P that has dependents in the store,
\* each dependent of P is deleted and its prune event emitted before P is
\* deleted and before P's own event is emitted.
C23_DepthFirstCascade ==
    Returned("removeNode") =>
        \A i \in DOMAIN events :
            events[i].removalType = "prune" =>
                \A n \in Range(pre) :
                    (events[i].node.id \in Range(n.deps) /\ n # events[i].node) =>
                        \E j \in DOMAIN events :
                            /\ j < i
                            /\ events[j].node = n
                            /\ events[j].removalType = "prune"

\* C24: in a removeNode call every node deleted from the store gets exactly
\* one node:remove event, and no node:remove event is emitted for a node
\* that was not in the store when the call started.
C24_OneRemoveEventEach ==
    Returned("removeNode") =>
        /\ \A n \in Range(pre) :
              n \notin Range(_nodes) =>
                  Cardinality(EventsOf("node:remove", n)) = 1
        /\ \A i \in DOMAIN events : events[i].node \in Range(pre)

\* C25: a successful addNode emits exactly one node:add event per
\* candidate, none for any other node, and no event of another type.
C25_OneAddEventEach ==
    Succeeded("addNode") =>
        /\ \A c \in Range(args) : Cardinality(EventsOf("node:add", c)) = 1
        /\ \A i \in DOMAIN events :
              events[i].type = "node:add" /\ events[i].node \in Range(args)

\* C26: when an addNode batch holds a candidate whose id is a key of the
\* store, the call succeeds exactly when the end state (the store with the
\* candidates standing in for the stored nodes of their ids) has no
\* dangling dependency and no cycle, and on success the store holds the
\* candidate under that id and its keys are those of the store and the
\* batch.
C26_ReplaceOnAdd ==
    (Returned("addNode") /\ \E c \in Range(args) : c.id \in Keys(pre)) =>
        LET end == EndState(pre, args) IN
        /\ error = NoError <=> (~Dangling(end) /\ ~Cyclic(end))
        /\ error = NoError =>
              /\ \A c \in Range(args) :
                    MapGet(end, c.id) = c => MapGet(_nodes, c.id) = c
              /\ Keys(_nodes) = Keys(pre) \cup Ids(args)
              /\ Len(_nodes) = Cardinality(Keys(_nodes))

\* C27: every node:add event of a successful addNode carries a candidate of
\* the batch, and that candidate is in the store under its id when the
\* event is emitted.
C27_StoredWhenEmitted ==
    Succeeded("addNode") =>
        \A i \in DOMAIN events :
            /\ events[i].type = "node:add"
            /\ events[i].node \in Range(args)
            /\ events[i].node.id \in Keys(events[i].snap)
            /\ MapGet(events[i].snap, events[i].node.id) = events[i].node

\* a successful batch of two events, one candidate taking the place of a
\* stored node
C27_Witness ==
    /\ Succeeded("addNode")
    /\ Len(events) > 1
    /\ \E i \in DOMAIN events :
          /\ events[i].node.id \in Keys(pre)
          /\ events[i].node \notin Range(pre)
====
